---- MODULE Spec2Model ----
(***************************************************************************)
(* SARSAAgent (src/rlcard/agents/sarsa_agent.py): exhaustive game-tree     *)
(* traversal with an on-policy tabular update, greedy inference and        *)
(* pickle persistence.                                                     *)
(*                                                                         *)
(* Reals are fixed-point integers with Scale units per 1.0; the two        *)
(* non-finite floats the code produces (-inf, NaN) are kept as their own   *)
(* values. A vector indexed by action a is a sequence read at a + 1.       *)
(***************************************************************************)
EXTENDS Integers, Sequences, FiniteSets, TLC

VARIABLES
    policy,      \* self.policy: obs -> probability vector
    qualities,   \* self.qualities: obs -> quality vector
    iteration,   \* self.iteration
    agent_id,    \* self.agent_id
    a,           \* self.a
    game,        \* the environment's game tree (fixed for a behaviour)
    agents,      \* env.get_agents(): the seat list
    envPath,     \* the environment's current node: the actions stepped from the root
    stack,       \* the active traverse_tree() calls, innermost last
    ret,         \* the value the innermost finished traverse_tree() call returned
    running,     \* TRUE while train() is executing
    result,      \* the outcome of the last API call
    disk,        \* the files under model_path
    visited,     \* ghost: how often this train() entered each node
    trains,      \* ghost: the number of train() calls made
    expected     \* ghost: the counter C8 describes

vars == <<policy, qualities, iteration, agent_id, a, game, agents, envPath,
          stack, ret, running, result, disk, visited, trains, expected>>

-----------------------------------------------------------------------------
(* Bounds of the model *)

MaxDepth == 2
MaxIter == 2

(* Program constants *)

NumActions == 3
Scale == 10 * 10 * 10 * 10
Alpha == Scale \div 10
Gamma == (4 * Scale) \div 10

Actions == 0 .. (NumActions - 1)

-----------------------------------------------------------------------------
(* Floats *)

Fin(n) == [k |-> "fin", v |-> n]
NegInf == [k |-> "ninf", v |-> 0]
NaN == [k |-> "nan", v |-> 0]

IsFin(x) == x.k = "fin"

\* F applied to the value of x (x is evaluated once, whatever F does with it)
With(x, F(_)) == CHOOSE y \in {F(v) : v \in {x}} : TRUE

\* x * y / Scale rounded to the nearest unit
Mul(x, y) == (x * y + Scale \div 2) \div Scale

\* x * Scale / y rounded to the nearest unit, y > 0
Div(x, y) == (x * Scale + y \div 2) \div y

\* e^d for d >= 0: the sum of the Taylor terms d^k / k!, down to the first that
\* rounds to nothing (series[k, term]: the sum from term number k - 1 on)
Exp(d) ==
    LET series[kt \in Nat \X Nat] ==
            IF kt[2] = 0 THEN 0
            ELSE kt[2] + series[<<kt[1] + 1, (kt[2] * d) \div (kt[1] * Scale)>>]
    IN series[<<1, Scale>>]

\* e^(-d) for d >= 0
ExpNeg(d) == Div(Scale, Exp(d))

\* the sum of a sequence of numbers
SeqSum(s) ==
    With(s, LAMBDA t :
        LET sum[i \in 0 .. Len(t)] == IF i = 0 THEN 0 ELSE sum[i - 1] + t[i]
        IN sum[Len(t)])

\* scipy.special.softmax: exp(x - max(x)) / sum(exp(x - max(x)))
Softmax(x) ==
    With(x, LAMBDA xs :
        LET fin == {i \in DOMAIN xs : IsFin(xs[i])} IN
        IF fin = {} \/ \E i \in DOMAIN xs : xs[i].k = "nan"
        THEN [i \in DOMAIN xs |-> NaN]
        ELSE LET m == CHOOSE v \in {xs[i].v : i \in fin} : \A i \in fin : xs[i].v <= v
             IN With([i \in DOMAIN xs |->
                        IF IsFin(xs[i]) THEN ExpNeg(m - xs[i].v) ELSE 0],
                     LAMBDA e : With(SeqSum(e), LAMBDA total :
                         [i \in DOMAIN xs |-> Fin(Div(e[i], total))])))

RECURSIVE SortedSeq(_)
\* the elements of a set of numbers in ascending order
SortedSeq(S) ==
    IF S = {} THEN <<>>
    ELSE LET m == CHOOSE x \in S : \A y \in S : x <= y
         IN <<m>> \o SortedSeq(S \ {m})

\* mutant of Argmax: the last index of the maximum
ArgmaxLast(p) ==
    (CHOOSE i \in DOMAIN p :
        /\ \A j \in DOMAIN p : p[j] <= p[i]
        /\ \A j \in DOMAIN p : j > i => p[j] < p[i]) - 1

\* np.argmax: the first index of the maximum
Argmax(p) ==
    (CHOOSE i \in DOMAIN p :
        /\ \A j \in DOMAIN p : p[j] <= p[i]
        /\ \A j \in DOMAIN p : j < i => p[j] < p[i]) - 1

-----------------------------------------------------------------------------
(* The environment *)

LegalChoices == {{}, {1}, {0, 1}}
LevelKinds == [seat : {0, 1}, legal : LegalChoices]

\* A game is a sequence of levels; a node at depth d < Len(levels) is a
\* decision node of levels[d + 1].seat with legal actions levels[d + 1].legal,
\* a node at depth Len(levels) is terminal. A level with no legal action has
\* no children, so it is the last one.
Games ==
    { g \in [levels : UNION {[1 .. d -> LevelKinds] : d \in 0 .. MaxDepth},
             fp : {"kind", "path"}] :
        \A d \in 1 .. Len(g.levels) - 1 : g.levels[d].legal # {} }

AgentLists == { <<"self", "other">>, <<"other", "self">>,
                <<"sarsa2", "self">>, <<"self", "sarsa2">> }

is_over == Len(envPath) >= Len(game.levels)

get_player_id == game.levels[Len(envPath) + 1].seat

LegalActions == game.levels[Len(envPath) + 1].legal

\* state['obs'].tostring() of the player to act
ObsOf(path) ==
    IF game.fp = "path" THEN <<"p", path>>
    ELSE <<"k", game.levels[Len(path) + 1].seat, game.levels[Len(path) + 1].legal>>

\* get_payoffs(): zero-sum, +1 to seat 0 when the actions played sum to an even number
get_payoffs(path) ==
    LET p0 == IF SeqSum(path) % 2 = 0 THEN Scale ELSE -Scale
    IN <<p0, -p0>>

\* env.step_back(): undoes exactly one prior step
step_back(path) == SubSeq(path, 1, Len(path) - 1)

\* rlcard.utils.remove_illegal: zero the illegal actions and renormalise; fails
\* when the vector is no array or no legal action has positive mass
remove_illegal(action_probs, legal_actions) ==
    With(action_probs, LAMBDA p :
        With([i \in 1 .. NumActions |->
                IF (i - 1) \in legal_actions /\ i \in DOMAIN p /\ IsFin(p[i])
                THEN p[i].v ELSE 0],
             LAMBDA mass : With(SeqSum(mass), LAMBDA total :
                 IF Len(p) # NumActions \/ total <= 0
                 THEN [ok |-> FALSE, probs |-> <<>>]
                 ELSE [ok |-> TRUE,
                       probs |-> [i \in 1 .. NumActions |-> Div(mass[i], total)]])))

-----------------------------------------------------------------------------
(* The agent's store *)

EmptyStore == [o \in {} |-> <<>>]

Put(f, key, val) == [o \in DOMAIN f \cup {key} |-> IF o = key THEN val ELSE f[o]]

\* the vector a new state starts with: 0 for a legal action, -inf otherwise
InitQualities(legal_actions) ==
    [i \in 1 .. NumActions |-> IF (i - 1) \in legal_actions THEN Fin(0) ELSE NegInf]

\* the test that decides whether action_probs() initialises obs
IsNewState(obs, pol, qual) == obs \notin DOMAIN pol /\ obs \notin DOMAIN qual

\* action_probs(): the store after the call and the masked vector it returns.
\* policy is a defaultdict(list): reading a missing key stores [] under it.
ActionProbs(obs, legal_actions, pol, qual) ==
    LET new == IsNewState(obs, pol, qual)
        tactions == InitQualities(legal_actions)
        qual1 == IF new THEN Put(qual, obs, tactions) ELSE qual
        pol1 == IF new THEN Put(pol, obs, Softmax(tactions))
                ELSE IF obs \in DOMAIN pol THEN pol ELSE Put(pol, obs, <<>>)
    IN With(pol1, LAMBDA p1 :
           With(remove_illegal(p1[obs], legal_actions), LAMBDA masked :
               [policy |-> p1, qualities |-> qual1, ok |-> masked.ok,
                probs |-> masked.probs]))

\* mutant of MoveToward: the step size is gamma instead of alpha
MoveTowardByGamma(q, target) ==
    IF IsFin(q) THEN Fin(q.v + Mul(Gamma, target - q.v)) ELSE NaN

\* qf[i] += alpha * (target - qf[i])
MoveToward(q, target) ==
    IF IsFin(q) THEN Fin(q.v + Mul(Alpha, target - q.v)) ELSE NaN

\* update_policy(): qualities is a defaultdict(list), so a missing key reads as
\* [] (and is stored); indexing [] raises IndexError before anything is written
UpdatePolicy(obs, next_state_values, pol, qual) ==
    LET qual0 == IF obs \in DOMAIN qual THEN qual ELSE Put(qual, obs, <<>>)
        old == qual0[obs]
        raises == \E i \in DOMAIN next_state_values : (i + 1) \notin DOMAIN old
    IN IF raises THEN [policy |-> pol, qualities |-> qual0, ok |-> FALSE]
       ELSE With([i \in DOMAIN old |->
                    IF (i - 1) \in DOMAIN next_state_values
                    THEN MoveToward(old[i], next_state_values[i - 1]) ELSE old[i]],
                 LAMBDA qf : [policy |-> Put(pol, obs, Softmax(qf)),
                              qualities |-> Put(qual0, obs, qf), ok |-> TRUE])

\* eval_step(): the store after the call, the greedy action and info['probs']
EvalStep(obs, legal_actions, pol, qual) ==
    With(ActionProbs(obs, legal_actions, pol, qual), LAMBDA ap :
        [policy |-> ap.policy, qualities |-> ap.qualities, ok |-> ap.ok,
         action |-> IF ap.ok THEN Argmax(ap.probs) ELSE -1,
         probs |-> ap.probs])

\* find_agent(): the seat of the first SARSAAgent instance in the seat list
FindAgent ==
    LET sarsa == {i \in DOMAIN agents : agents[i] \in {"self", "sarsa2"}}
    IN IF sarsa = {} THEN agent_id
       ELSE (CHOOSE i \in sarsa : \A j \in sarsa : i <= j) - 1

-----------------------------------------------------------------------------
(* train() and traverse_tree() *)

NoRet == [has |-> FALSE, v |-> 0]
Returned(v) == [has |-> TRUE, v |-> v]

NoQuality == [i \in {} |-> 0]

\* a traverse_tree() call that has just been entered at node `path`
NewFrame(path) ==
    [pc |-> "enter", obs |-> <<>>, legal |-> {}, action_probs |-> <<>>,
     todo |-> <<>>, cur |-> -1, value |-> 0, quality |-> NoQuality,
     entry |-> path, p0 |-> <<>>]

Top == stack[Len(stack)]
Pop == SubSeq(stack, 1, Len(stack) - 1)
SetTop(f) == [stack EXCEPT ![Len(stack)] = f]

NoVisits == [n \in {} |-> 0]
Visit(n) ==
    [m \in DOMAIN visited \cup {n} |->
        IF m = n THEN (IF n \in DOMAIN visited THEN visited[n] ELSE 0) + 1
        ELSE visited[m]]

Outcome(op, outcome) ==
    [op |-> op, outcome |-> outcome, action |-> -1, obs |-> <<>>, legal |-> {},
     probs |-> <<>>]

\* an exception leaves train() through every active call: no handler, no finally
Raise ==
    /\ stack' = <<>>
    /\ ret' = NoRet
    /\ running' = FALSE
    /\ result' = Outcome("train", "error")
    /\ visited' = NoVisits

\* train(), up to the call of traverse_tree()
Train ==
    /\ ~running
    /\ trains < MaxIter
    /\ trains' = trains + 1
    /\ iteration' = iteration + 1
    /\ a' = Cardinality(DOMAIN policy)
    /\ envPath' = <<>>
    /\ agent_id' = FindAgent
    /\ stack' = <<NewFrame(<<>>)>>
    /\ ret' = NoRet
    /\ running' = TRUE
    /\ result' = Outcome("train", "running")
    /\ visited' = NoVisits
    /\ UNCHANGED <<policy, qualities, game, agents, disk, expected>>

\* traverse_tree() at a finished game: the agent's payoff
EnterTerminal ==
    /\ running /\ stack # <<>> /\ Top.pc = "enter"
    /\ is_over
    /\ ret' = Returned(get_payoffs(envPath)[agent_id + 1])
    /\ stack' = Pop
    /\ visited' = Visit(envPath)
    /\ UNCHANGED <<policy, qualities, iteration, agent_id, a, game, agents,
                   envPath, running, result, disk, trains, expected>>

\* env.agents[current_player].step(state): this agent's own eval_step when it
\* sits at that seat (the store changes, one action comes back or the call
\* raises), any legal action of the seat otherwise (none: the call raises)
OpponentStep ==
    IF agents[get_player_id + 1] = "self"
    THEN LET ev == EvalStep(ObsOf(envPath), LegalActions, policy, qualities)
         IN [policy |-> ev.policy, qualities |-> ev.qualities,
             choices |-> IF ev.ok THEN {ev.action} ELSE {}]
    ELSE [policy |-> policy, qualities |-> qualities, choices |-> LegalActions]

\* traverse_tree() at another player's turn, up to the recursive call
EnterOpponent ==
    /\ running /\ stack # <<>> /\ Top.pc = "enter"
    /\ ~is_over
    /\ get_player_id # agent_id
    /\ \E os \in {OpponentStep} :
          /\ policy' = os.policy
          /\ qualities' = os.qualities
          /\ IF os.choices = {}
             THEN Raise /\ UNCHANGED envPath
             ELSE \E act \in os.choices :
                    /\ visited' = Visit(envPath)
                    /\ envPath' = Append(envPath, act)
                    /\ stack' = Append(SetTop([Top EXCEPT !.pc = "opp_wait", !.cur = act]),
                                       NewFrame(Append(envPath, act)))
                    /\ UNCHANGED <<ret, running, result>>
    /\ UNCHANGED <<iteration, agent_id, a, game, agents, disk, trains, expected>>

\* self.env.step_back() after the opponent's child
BacktrackOpponent(path) == step_back(path)

\* traverse_tree() at another player's turn, after the recursive call
ReturnOpponent ==
    /\ running /\ stack # <<>> /\ Top.pc = "opp_wait"
    /\ ret.has
    /\ envPath' = BacktrackOpponent(envPath)
    /\ stack' = Pop
    /\ UNCHANGED <<policy, qualities, iteration, agent_id, a, game, agents, ret,
                   running, result, disk, visited, trains, expected>>

\* traverse_tree() at the agent's turn, up to the loop over legal_actions
EnterAgent ==
    /\ running /\ stack # <<>> /\ Top.pc = "enter"
    /\ ~is_over
    /\ get_player_id = agent_id
    /\ \E obs \in {ObsOf(envPath)} :
       \E ap \in {ActionProbs(obs, LegalActions, policy, qualities)} :
          /\ policy' = ap.policy
          /\ qualities' = ap.qualities
          /\ IF ap.ok
             THEN /\ stack' = SetTop([Top EXCEPT !.pc = "loop", !.obs = obs,
                                        !.legal = LegalActions,
                                        !.action_probs = ap.probs,
                                        !.todo = SortedSeq(LegalActions),
                                        !.p0 = ap.policy[obs]])
                  /\ visited' = Visit(envPath)
                  /\ UNCHANGED <<ret, running, result>>
             ELSE Raise
    /\ UNCHANGED <<iteration, agent_id, a, game, agents, envPath, disk, trains, expected>>

\* the loop body up to the recursive call: env.step(action)
StepAction ==
    /\ running /\ stack # <<>> /\ Top.pc = "loop"
    /\ Top.todo # <<>>
    /\ LET act == Head(Top.todo)
       IN /\ envPath' = Append(envPath, act)
          /\ stack' = Append(SetTop([Top EXCEPT !.pc = "agent_wait", !.cur = act]),
                             NewFrame(Append(envPath, act)))
    /\ UNCHANGED <<policy, qualities, iteration, agent_id, a, game, agents, ret,
                   running, result, disk, visited, trains, expected>>

\* mutant of ActionProb: the vector is read from the store at the time of use
ActionProbFromStore(frame, act) ==
    remove_illegal(policy[frame.obs], frame.legal).probs[act + 1]

\* action_probs[action] as the loop body reads it
ActionProb(frame, act) == frame.action_probs[act + 1]

\* mutant of BacktrackAction: the step is not undone
BacktrackActionSkipped(path) == path

\* self.env.step_back() after an action's child
BacktrackAction(path) == step_back(path)

\* mutant of RemainingActions: the loop ends after its first action
RemainingActionsNone(todo) == <<>>

\* the actions the for loop has still to take after the current one
RemainingActions(todo) == Tail(todo)

\* the loop body after the recursive call: step_back, accumulate, record
ReturnAction ==
    /\ running /\ stack # <<>> /\ Top.pc = "agent_wait"
    /\ ret.has
    /\ envPath' = BacktrackAction(envPath)
    /\ stack' = SetTop([Top EXCEPT
                          !.pc = "loop",
                          !.todo = RemainingActions(Top.todo),
                          !.value = Top.value + Mul(ActionProb(Top, Top.cur), ret.v),
                          !.quality = [i \in DOMAIN Top.quality \cup {Top.cur} |->
                                         IF i = Top.cur THEN ret.v ELSE Top.quality[i]]])
    /\ ret' = NoRet
    /\ UNCHANGED <<policy, qualities, iteration, agent_id, a, game, agents,
                   running, result, disk, visited, trains, expected>>

\* the value traverse_tree() returns from the agent's node
NodeValue(frame) == Mul(frame.value, Gamma)

\* after the loop: update_policy and return value * gamma
UpdateAndReturn ==
    /\ running /\ stack # <<>> /\ Top.pc = "loop"
    /\ Top.todo = <<>>
    /\ \E up \in {UpdatePolicy(Top.obs, Top.quality, policy, qualities)} :
          /\ policy' = up.policy
          /\ qualities' = up.qualities
          /\ IF up.ok
             THEN /\ ret' = Returned(NodeValue(Top))
                  /\ stack' = Pop
                  /\ UNCHANGED <<running, result, visited>>
             ELSE Raise
    /\ UNCHANGED <<iteration, agent_id, a, game, agents, envPath, disk, trains, expected>>

\* train() returns once the root call has
TrainReturn ==
    /\ running /\ stack = <<>>
    /\ ret.has
    /\ ret' = NoRet
    /\ running' = FALSE
    /\ result' = Outcome("train", "ok")
    /\ expected' = expected + 1
    /\ visited' = NoVisits
    /\ UNCHANGED <<policy, qualities, iteration, agent_id, a, game, agents,
                   envPath, stack, disk, trains>>

Traverse ==
    \/ EnterTerminal
    \/ EnterOpponent
    \/ ReturnOpponent
    \/ EnterAgent
    \/ StepAction
    \/ ReturnAction
    \/ UpdateAndReturn
    \/ TrainReturn

-----------------------------------------------------------------------------
(* Inference and persistence *)

\* eval_step(state) / step(state) for the state of the player to act
EvalStepCall ==
    /\ ~running
    /\ ~is_over
    /\ \E obs \in {ObsOf(envPath)} :
       \E ev \in {EvalStep(obs, LegalActions, policy, qualities)} :
          /\ policy' = ev.policy
          /\ qualities' = ev.qualities
          /\ result' = [op |-> "eval", outcome |-> IF ev.ok THEN "ok" ELSE "error",
                        action |-> ev.action, obs |-> obs, legal |-> LegalActions,
                        probs |-> ev.probs]
    /\ UNCHANGED <<iteration, agent_id, a, game, agents, envPath, stack, ret,
                   running, disk, visited, trains, expected>>

\* the game loop outside the agent plays one legal action
EnvStep ==
    /\ ~running
    /\ ~is_over
    /\ \E act \in LegalActions : envPath' = Append(envPath, act)
    /\ UNCHANGED <<policy, qualities, iteration, agent_id, a, game, agents, stack,
                   ret, running, result, disk, visited, trains, expected>>

File(data) == [present |-> TRUE, data |-> data]
NoStoreFile == [present |-> FALSE, data |-> EmptyStore]
NoCounterFile == [present |-> FALSE, data |-> 0]

\* save(): the directory is made, then the three files are written one after
\* the other; `written` of them are on disk when the call ends (3: it returned,
\* fewer: an I/O error ended it)
Save ==
    /\ ~running
    /\ \E written \in 0 .. 3 :
         /\ disk' = [exists |-> TRUE,
                     policy |-> IF written >= 1 THEN File(policy) ELSE disk.policy,
                     qualities |-> IF written >= 2 THEN File(qualities)
                                   ELSE disk.qualities,
                     iteration |-> IF written >= 3 THEN File(iteration)
                                   ELSE disk.iteration]
         /\ result' = Outcome("save", IF written = 3 THEN "ok" ELSE "error")
    /\ UNCHANGED <<policy, qualities, iteration, agent_id, a, game, agents, envPath,
                   stack, ret, running, visited, trains, expected>>

\* load(): each attribute is assigned as soon as its file is read; a file that
\* cannot be read ends the call with an exception
Load ==
    /\ ~running
    /\ LET n == IF ~disk.exists THEN 0
                ELSE IF ~disk.policy.present THEN 0
                ELSE IF ~disk.qualities.present THEN 1
                ELSE IF ~disk.iteration.present THEN 2
                ELSE 3
           failed == disk.exists /\ n < 3
       IN /\ policy' = IF n >= 1 THEN disk.policy.data ELSE policy
          /\ qualities' = IF n >= 2 THEN disk.qualities.data ELSE qualities
          /\ iteration' = IF n >= 3 THEN disk.iteration.data ELSE iteration
          /\ expected' = IF n >= 3 THEN disk.iteration.data ELSE expected
          /\ result' = Outcome("load", IF failed THEN "error" ELSE "ok")
    /\ UNCHANGED <<agent_id, a, game, agents, envPath, stack, ret, running, disk,
                   visited, trains>>

-----------------------------------------------------------------------------

Init ==
    /\ policy = EmptyStore
    /\ qualities = EmptyStore
    /\ iteration = 0
    /\ agent_id = 0
    /\ a = 0
    /\ game \in Games
    /\ agents \in AgentLists
    /\ envPath = <<>>
    /\ stack = <<>>
    /\ ret = NoRet
    /\ running = FALSE
    /\ result = Outcome("none", "ok")
    /\ disk = [exists |-> FALSE, policy |-> NoStoreFile, qualities |-> NoStoreFile,
               iteration |-> NoCounterFile]
    /\ visited = NoVisits
    /\ trains = 0
    /\ expected = 0

\* the games the persistence checks run on
PersistInit == Init /\ Len(game.levels) < MaxDepth

Next ==
    \/ Train
    \/ Traverse
    \/ EvalStepCall

PersistNext ==
    \/ Next
    \/ EnvStep
    \/ Save
    \/ Load

Spec == Init /\ [][Next]_vars

\* a call of train() that has started runs to its end
FairSpec == Spec /\ WF_vars(Traverse)

PersistSpec == PersistInit /\ [][PersistNext]_vars

-----------------------------------------------------------------------------
(* Properties *)

\* C1: a traverse_tree() call that returns leaves the environment at the node
\* it was entered at (the caller's node plus the action it stepped; the root
\* for the outermost call), a call is entered and resumes its loop at its own
\* node, and a train() that returned leaves the environment at the root.
TraversalRestoresEnv ==
    /\ (running /\ ret.has) =>
          envPath = IF stack = <<>> THEN <<>> ELSE Append(Top.entry, Top.cur)
    /\ (running /\ ~ret.has /\ stack # <<>>) => envPath = Top.entry
    /\ (~running /\ result.op = "train" /\ result.outcome = "ok") => envPath = <<>>

\* C1 witness: a call two levels below the root has returned to an agent node
\* that sits under an opponent node
TraversalRestoresEnvWitness ==
    /\ running /\ ret.has
    /\ Len(stack) = 2
    /\ stack[1].pc = "opp_wait" /\ stack[2].pc = "agent_wait"
    /\ Len(stack[2].todo) = 2

SeatAt(n) == game.levels[Len(n) + 1].seat
LegalAt(n) == game.levels[Len(n) + 1].legal
Terminal(n) == Len(n) >= Len(game.levels)
ChildrenVisited(n) == {act \in Actions : Append(n, act) \in DOMAIN visited}

\* no node is entered twice, and when the root call has returned the entered
\* nodes are exactly the reachable ones: the root, every legal child of an
\* agent node that was entered, one legal child of an opponent node that was
\* entered
VisitsEachNodeOnce ==
    /\ \A n \in DOMAIN visited : visited[n] = 1
    /\ (running /\ stack = <<>> /\ ret.has) =>
          /\ <<>> \in DOMAIN visited
          /\ \A n \in DOMAIN visited :
                /\ n # <<>> => step_back(n) \in DOMAIN visited
                /\ Terminal(n) => ChildrenVisited(n) = {}
                /\ (~Terminal(n) /\ SeatAt(n) = agent_id) =>
                       ChildrenVisited(n) = LegalAt(n)
                /\ (~Terminal(n) /\ SeatAt(n) # agent_id) =>
                       /\ Cardinality(ChildrenVisited(n)) = 1
                       /\ ChildrenVisited(n) \subseteq LegalAt(n)

\* C2: train() terminates, and its traversal enters every reachable node of
\* the tree exactly once.
TraversalVisitsAllAndTerminates ==
    /\ []VisitsEachNodeOnce
    /\ (running ~> ~running)

\* C2 witness: a traversal of a two-level tree has returned at the root after
\* entering an agent node, both its children and a child of each
TraversalVisitsAllWitness ==
    /\ running /\ stack = <<>> /\ ret.has
    /\ Cardinality(DOMAIN visited) >= 5

\* C3 (as claimed): the two mappings have the same key set
SameKeySets == DOMAIN policy = DOMAIN qualities

TwoNodeGame ==
    /\ game.levels = <<[seat |-> 0, legal |-> {0, 1}]>>
    /\ agents[1] = "self"

\* C4: in the two-node game (root: the agent's node, action 0 pays +1 and
\* action 1 pays -1), after the first train() the root's quality vector is
\* alpha, -alpha and -inf elsewhere, and eval_step at the root returns action 0.
TwoNodeScenario ==
    (TwoNodeGame /\ ~running /\ iteration = 1) =>
        /\ ObsOf(<<>>) \in DOMAIN qualities
        /\ qualities[ObsOf(<<>>)] =
              [i \in 1 .. NumActions |->
                  IF i = 1 THEN Fin(Alpha) ELSE IF i = 2 THEN Fin(-Alpha) ELSE NegInf]
        /\ result.op = "eval" => (result.outcome = "ok" /\ result.action = 0)

\* C4 witness: eval_step has answered at the root after one train() that began
\* with an empty store
TwoNodeScenarioWitness ==
    /\ TwoNodeGame /\ ~running /\ iteration = 1 /\ a = 0
    /\ result.op = "eval" /\ result.action = 0

\* C5: the action eval_step returns is the lowest index at which the masked
\* probability vector of the observation is maximal, and it is a legal action.
GreedyActionIsLegal ==
    (result.op = "eval" /\ result.outcome = "ok") =>
        LET p == remove_illegal(policy[result.obs], result.legal).probs
            act == result.action
        IN /\ act \in result.legal
           /\ \A i \in Actions : p[i + 1] <= p[act + 1]
           /\ \A i \in Actions : i < act => p[i + 1] < p[act + 1]

\* C5 witness: eval_step on a store that held nothing, at an observation whose
\* lowest legal action is not action 0
GreedyActionIsLegalWitness ==
    /\ result.op = "eval" /\ result.outcome = "ok"
    /\ trains = 0 /\ ~disk.exists
    /\ result.legal = {1} /\ result.action = 1

\* C6 (as claimed): at the agent's node with no legal action the traversal
\* fails and the store is left as it was
EmptyLegalSetFailsCleanly ==
    [][(EnterAgent /\ LegalActions = {}) =>
          (result'.outcome = "error" /\ UNCHANGED <<policy, qualities>>)]_vars

DiskCorrupt ==
    /\ disk.exists
    /\ \/ ~disk.policy.present
       \/ ~disk.qualities.present
       \/ ~disk.iteration.present
       \/ DOMAIN disk.policy.data # DOMAIN disk.qualities.data

\* C7 (as claimed): load() of corrupt or partial persisted state fails and
\* leaves policy, qualities and iteration as they were
LoadIsAllOrNothing ==
    [][(Load /\ DiskCorrupt) =>
          (result'.outcome = "error" /\ UNCHANGED <<policy, qualities, iteration>>)]_vars

\* C8 (as claimed): between calls the counter is its initial value plus the
\* number of train() calls whose traversal completed
CounterCountsCompleted == ~running => iteration = expected

\* the masked probability vector of a frame's observation as it was stored
\* when the node was entered
EntryProbs(frame) == remove_illegal(frame.p0, frame.legal).probs

\* sum over the legal actions of p(act) * v(act)
WeightedSum(frame) ==
    SeqSum([i \in 1 .. NumActions |->
              IF (i - 1) \in frame.legal
              THEN Mul(EntryProbs(frame)[i], frame.quality[i - 1]) ELSE 0])

AgentIdIsOwnSeat == running => agents[agent_id + 1] = "self"

====
